---------------------------- MODULE Spec2Model ----------------------------
(***************************************************************************)
(* Model of lstig.general: the yaml_file module (plugins/modules/          *)
(* yaml_file.py) and the dig filter (plugins/filter/core.py).              *)
(*                                                                         *)
(* A YAML value is a tagged record: null, a scalar, a sequence of scalars  *)
(* or a mapping (a function from string keys to YAML values).  A file's    *)
(* text is a sequence of tokens; yaml_dump and yaml_load translate between *)
(* the two.  One invocation of run_module is a process that steps through  *)
(* load, decide, diff, backup, temp-file write and atomic move; the        *)
(* destination file, its directory, the temp files and the backups are     *)
(* shared state.                                                           *)
(***************************************************************************)
EXTENDS Integers, Sequences, FiniteSets, TLC

VARIABLES
    dest,       \* the destination file: [exists, text]
    destdir,    \* whether the parent directory of dest exists
    tmpfiles,   \* per process: the NamedTemporaryFile it created, or NoFile
    backups,    \* texts of the backup copies made by backup_local
    run,        \* per process: the locals of its run_module invocation
    observed,   \* what a concurrent reader of dest saw last, or NotRead
    FILTERS,    \* the filter plugin's table: name -> registered function
    call        \* the call of a helper (the filter dig, merge) under way

\* the state of the helpers, apart from the invocations and the file system
plugin == <<FILTERS, call>>

vars == <<dest, destdir, tmpfiles, backups, run, observed, FILTERS, call>>

----------------------------------------------------------------------------
(* Bounds *)

\* sequential invocations with identical arguments by one process
MaxRuns == 2

----------------------------------------------------------------------------
(* YAML values *)

Null == [t |-> "null"]
Scalar(v) == [t |-> "scalar", v |-> v]
List(items) == [t |-> "seq", items |-> items]
Map(f) == [t |-> "map", m |-> f]

EmptyMap == Map(<<>>)

\* isinstance(v, Mapping)
IsMapping(v) == v.t = "map"

\* Python truth value of a loaded YAML value: None, 0/false, [] and {} are falsy
Truthy(v) ==
    CASE v.t = "null" -> FALSE
      [] v.t = "scalar" -> v.v # "0"
      [] v.t = "seq" -> v.items # <<>>
      [] v.t = "map" -> DOMAIN v.m # {}

Keys == {"a", "b"}
\* a fixed iteration order for mapping keys (dict order)
KeyOrder == <<"a", "b">>
ScalarToks == {"0", "1", "2"}

MapsOver(S) == {Map(f) : f \in UNION {[D -> S] : D \in SUBSET Keys}}

InnerLeaves == {Scalar("1"), Scalar("2"), Null, List(<<"1">>)}
InnerMaps == MapsOver({Scalar("1")})
\* documents whose root is a mapping, two levels deep
MapDocs == MapsOver(InnerLeaves \cup InnerMaps)
\* documents whose root is not a mapping
NonMapDocs == {Null, Scalar("0"), Scalar("1"), List(<<>>), List(<<"1">>)}
\* the values a caller passes as `value`
Values == InnerLeaves \cup InnerMaps

----------------------------------------------------------------------------
(* The YAML codec: text is a sequence of tokens *)

NL == <<"\n">>

RECURSIVE DumpKeys(_, _)
RECURSIVE DumpNode(_)
DumpNode(v) ==
    CASE v.t = "null" -> <<"null">>
      [] v.t = "scalar" -> <<v.v>>
      [] v.t = "seq" -> <<"[">> \o v.items \o <<"]">>
      [] v.t = "map" -> <<"{">> \o DumpKeys(v.m, KeyOrder) \o <<"}">>

DumpKeys(f, ks) ==
    IF ks = <<>> THEN <<>>
    ELSE (IF Head(ks) \in DOMAIN f
          THEN <<Head(ks), ":">> \o DumpNode(f[Head(ks)])
          ELSE <<>>) \o DumpKeys(f, Tail(ks))

\* yaml.dump(data, stream): the text written to the stream
yaml_dump(v) == DumpNode(v) \o NL

ParseFail == [ok |-> FALSE, doc |-> Null, rest |-> <<>>]
ParseOk(v, rest) == [ok |-> TRUE, doc |-> v, rest |-> rest]

RECURSIVE ParseNode(_)
RECURSIVE ParseSeq(_, _)
RECURSIVE ParseMap(_, _)
ParseNode(toks) ==
    IF toks = <<>> THEN ParseFail
    ELSE LET h == Head(toks)
             r == Tail(toks)
         IN  CASE h = "null" -> ParseOk(Null, r)
               [] h \in ScalarToks -> ParseOk(Scalar(h), r)
               [] h = "[" -> ParseSeq(r, <<>>)
               [] h = "{" -> ParseMap(r, <<>>)
               [] OTHER -> ParseFail

ParseSeq(toks, acc) ==
    IF toks = <<>> THEN ParseFail
    ELSE IF Head(toks) = "]" THEN ParseOk(List(acc), Tail(toks))
    ELSE IF Head(toks) \in ScalarToks THEN ParseSeq(Tail(toks), Append(acc, Head(toks)))
    ELSE ParseFail

ParseMap(toks, acc) ==
    IF toks = <<>> THEN ParseFail
    ELSE IF Head(toks) = "}" THEN ParseOk(Map(acc), Tail(toks))
    ELSE IF /\ Head(toks) \in Keys
            /\ Head(toks) \notin DOMAIN acc
            /\ Len(toks) >= 2
            /\ toks[2] = ":"
         THEN LET v == ParseNode(SubSeq(toks, 3, Len(toks)))
              IN  IF v.ok
                  THEN ParseMap(v.rest, acc @@ (Head(toks) :> v.doc))
                  ELSE ParseFail
    ELSE ParseFail

\* yaml.load(text): None for an empty document, an error for malformed text
yaml_load(text) ==
    IF text = <<>> \/ text = NL THEN ParseOk(Null, <<>>)
    ELSE LET p == ParseNode(text)
         IN  IF p.ok /\ p.rest = NL THEN p ELSE ParseFail

----------------------------------------------------------------------------
(* Python subscripting, dig and merge *)

Ok(v) == [exc |-> "none", val |-> v]
Raise(e) == [exc |-> e, val |-> Null]

\* dct[key] for a string key
getitem(dct, key) ==
    IF IsMapping(dct)
    THEN IF key \in DOMAIN dct.m THEN Ok(dct.m[key]) ELSE Raise("KeyError")
    ELSE Raise("TypeError")

\* dct[key] = v for a string key
setitem(dct, key, v) ==
    IF IsMapping(dct)
    THEN Ok(Map([k \in DOMAIN dct.m \cup {key} |-> IF k = key THEN v ELSE dct.m[k]]))
    ELSE Raise("TypeError")

\* del dct[key] for a string key
delitem(dct, key) ==
    IF IsMapping(dct)
    THEN IF key \in DOMAIN dct.m
         THEN Ok(Map([k \in DOMAIN dct.m \ {key} |-> dct.m[k]]))
         ELSE Raise("KeyError")
    ELSE Raise("TypeError")

\* dct.get(key, default)
get(dct, key, default) ==
    IF IsMapping(dct)
    THEN IF key \in DOMAIN dct.m THEN Ok(dct.m[key]) ELSE Ok(default)
    ELSE Raise("AttributeError")

RECURSIVE dig(_, _)
dig(dct, keys) ==
    IF keys = <<>> THEN Ok(dct)
    ELSE LET r == getitem(dct, Head(keys))
         IN  IF r.exc # "none" THEN r ELSE dig(r.val, Tail(keys))

\* the keys of a mapping in iteration order
RECURSIVE ItemKeys(_, _)
ItemKeys(f, ks) ==
    IF ks = <<>> THEN <<>>
    ELSE (IF Head(ks) \in DOMAIN f THEN <<Head(ks)>> ELSE <<>>) \o ItemKeys(f, Tail(ks))

RECURSIVE merge(_, _)
RECURSIVE MergeItems(_, _, _)
\* the loop of merge over the items of other that remain, dct being mutated
MergeItems(dct, other, ks) ==
    IF ks = <<>> THEN Ok(dct)
    ELSE LET k == Head(ks)
             v == other.m[k]
         IN  IF IsMapping(v)
             THEN LET g == get(dct, k, EmptyMap)
                  IN  IF g.exc # "none" THEN g
                      ELSE LET sub == merge(g.val, v)
                           IN  IF sub.exc # "none" THEN sub
                               ELSE LET s == setitem(dct, k, sub.val)
                                    IN  IF s.exc # "none" THEN s
                                        ELSE MergeItems(s.val, other, Tail(ks))
             ELSE LET s == setitem(dct, k, v)
                  IN  IF s.exc # "none" THEN s
                      ELSE MergeItems(s.val, other, Tail(ks))

\* mutant: dct.update(other), which replaces nested mappings whole
merge_Update(dct, other) ==
    Ok(Map([k \in DOMAIN dct.m \cup DOMAIN other.m |->
              IF k \in DOMAIN other.m THEN other.m[k] ELSE dct.m[k]]))

merge(dct, other) == MergeItems(dct, other, ItemKeys(other.m, KeyOrder))

\* key.split('.') on a key given as a sequence of characters
RECURSIVE SplitFrom(_, _, _)
SplitFrom(chars, cur, acc) ==
    IF chars = <<>> THEN Append(acc, cur)
    ELSE IF Head(chars) = "." THEN SplitFrom(Tail(chars), "", Append(acc, cur))
    ELSE SplitFrom(Tail(chars), cur \o Head(chars), acc)

split(key) == SplitFrom(key, "", <<>>)

\* the dictionary built for merging: one branch, the last key bound to value
RECURSIVE tmpdict(_, _)
tmpdict(keys, value) ==
    IF Len(keys) = 1 THEN Map(Head(keys) :> value)
    ELSE Map(Head(keys) :> tmpdict(Tail(keys), value))

\* the document after the object reached by keys (an alias into data) was
\* replaced by new
RECURSIVE Aliased(_, _, _)
Aliased(data, keys, new) ==
    IF keys = <<>> THEN new
    ELSE Map([k \in DOMAIN data.m |->
                IF k = Head(keys) THEN Aliased(data.m[k], Tail(keys), new)
                ELSE data.m[k]])

----------------------------------------------------------------------------
(* The file system and the invocations *)

\* the invocations that can exist, and those that run one after another
AllProcs == {1, 2}
Procs == {1}

File(text) == [exists |-> TRUE, text |-> text]
NoFile == [exists |-> FALSE, text |-> <<>>]
NotRead == [exists |-> FALSE, text |-> <<"?">>]

\* text that the codec cannot decode
Malformed == <<"{", "a", ":", "\n">>

InitialFiles ==
    {NoFile, File(<<>>), File(Malformed)}
        \cup {File(yaml_dump(d)) : d \in MapDocs \cup NonMapDocs}

\* the dotted keys a caller passes as `key`, character by character
DottedKeys ==
    { <<"a">>, <<"b">>, <<"a", ".", "a">>, <<"a", ".", "b">>,
      <<"a", ".", "b", ".", "a">> }

\* module.params and module._diff
Params ==
    [key : DottedKeys, value : Values, state : {"present"},
     backup : BOOLEAN, create : BOOLEAN, diffmode : BOOLEAN]
    \cup
    [key : DottedKeys, value : {Null}, state : {"absent"},
     backup : BOOLEAN, create : BOOLEAN, diffmode : BOOLEAN]

NoParams ==
    [key |-> <<"a">>, value |-> Null, state |-> "absent",
     backup |-> FALSE, create |-> FALSE, diffmode |-> FALSE]

NoDiff == [before |-> <<>>, after |-> <<>>]

\* no helper is being called
NoCall == [pc |-> "none"]

Idle ==
    [pc |-> "idle", params |-> NoParams, loaded |-> Null, data |-> Null,
     changed |-> FALSE,
     msg |-> "OK", diff |-> NoDiff, backup_file |-> "None", err |-> "",
     pre |-> NoFile, predir |-> FALSE, n |-> 0, hist |-> <<>>,
     wrote |-> FALSE, moved |-> 0, loadedAt |-> 0]

Running == {"loaded", "decided", "diffed", "backed_up", "writing", "written"}
Ended == {"returned", "failed", "raised", "crashed"}

Init ==
    /\ dest \in InitialFiles
    /\ destdir \in (IF dest.exists THEN {TRUE} ELSE BOOLEAN)
    /\ tmpfiles = [p \in AllProcs |-> NoFile]
    /\ backups = {}
    /\ run = [p \in AllProcs |-> Idle]
    /\ observed = NotRead
    /\ FILTERS = <<>>
    /\ call = NoCall

\* module.fail_json(msg=...): the invocation ends with a failure result
fail_json(r, m) == [r EXCEPT !.pc = "failed", !.err = m]

\* an exception that nothing catches leaves run_module
Uncaught(r, e) == [r EXCEPT !.pc = "raised", !.err = e]

\* return changed, backup_file, diff, msg
Return(r) ==
    [r EXCEPT !.pc = "returned",
              !.hist = Append(@, [changed |-> r.changed, msg |-> r.msg])]

\* the number of atomic replaces of dest made so far
RECURSIVE MaxMoved(_)
MaxMoved(ps) ==
    IF ps = {} THEN 0
    ELSE LET p == CHOOSE q \in ps : TRUE
             rest == MaxMoved(ps \ {p})
         IN  IF run[p].moved > rest THEN run[p].moved ELSE rest

MovesSoFar == MaxMoved(AllProcs)

\* lines 148-174: existence check, makedirs, read, diff['before'], yaml.load
Loaded(r, ps) ==
    LET r0 == [r EXCEPT !.params = ps, !.pre = dest, !.predir = destdir,
                        !.wrote = FALSE, !.moved = 0,
                        !.loadedAt = MovesSoFar,
                        !.n = @ + 1, !.loaded = Null, !.data = Null,
                        !.changed = FALSE,
                        !.msg = "OK", !.diff = NoDiff,
                        !.backup_file = "None", !.err = ""]
        text == IF dest.exists THEN dest.text ELSE <<>>
        before == IF ps.diffmode
                  THEN (IF text # <<>> THEN text ELSE NL)
                  ELSE <<>>
        r1 == [r0 EXCEPT !.diff.before = before]
        loaded == yaml_load(text)
    IN  IF ~dest.exists /\ ~ps.create
        THEN fail_json(r0, "Path does not exist!")
        ELSE IF ~loaded.ok
        THEN Uncaught(r1, "YAMLError")
        ELSE LET data == IF Truthy(loaded.doc) THEN loaded.doc ELSE EmptyMap
             IN  [r1 EXCEPT !.pc = "loaded", !.loaded = data, !.data = data]

\* mutant: the directory is made before `create` is looked at
MakeDirs_BeforeCheck(ps) == IF ~dest.exists THEN TRUE ELSE destdir

\* lines 161-164: os.makedirs(destdir) when the file is to be created
MakeDirs(ps) == IF ~dest.exists /\ ps.create THEN TRUE ELSE destdir

\* an invocation with parameters out of P starts and loads the document
LoadFrom(p, P) ==
    /\ run[p].pc = "idle"
    /\ \E ps \in P :
        /\ run' = [run EXCEPT ![p] = Loaded(run[p], ps)]
        /\ destdir' = MakeDirs(ps)
    /\ observed' = NotRead
    /\ UNCHANGED <<dest, tmpfiles, backups>>
    /\ UNCHANGED plugin

Load(p) == LoadFrom(p, Params)

\* the same invocation once more, on the file the last one left
Rerun(p) ==
    /\ run[p].pc = "returned"
    /\ run[p].n < MaxRuns
    /\ run' = [run EXCEPT ![p] = Loaded(run[p], run[p].params)]
    /\ destdir' = MakeDirs(run[p].params)
    /\ observed' = NotRead
    /\ UNCHANGED <<dest, tmpfiles, backups>>
    /\ UNCHANGED plugin

\* lines 181-204: state == 'present'
present(r, keys) ==
    LET value == r.params.value
        current == dig(r.data, keys)
    IN  IF current.exc \notin {"none", "KeyError"}
        THEN Uncaught(r, current.exc)
        ELSE IF current.exc = "none" /\ value = current.val
        THEN [r EXCEPT !.pc = "decided"]
        ELSE LET m == IF current.exc = "none" THEN "value changed"
                      ELSE "key added"
                 merged == merge(r.data, tmpdict(keys, value))
             IN  IF merged.exc # "none"
                 THEN Uncaught(r, merged.exc)
                 ELSE [r EXCEPT !.pc = "decided", !.changed = TRUE,
                                !.msg = m, !.data = merged.val]

\* lines 206-214: state == 'absent'
absent(r, keys) ==
    LET parent == SubSeq(keys, 1, Len(keys) - 1)
        e == dig(r.data, parent)
        d == IF e.exc = "none" THEN delitem(e.val, keys[Len(keys)]) ELSE e
    IN  IF d.exc = "KeyError"
        THEN [r EXCEPT !.pc = "decided"]
        ELSE IF d.exc # "none"
        THEN Uncaught(r, d.exc)
        ELSE [r EXCEPT !.pc = "decided", !.changed = TRUE,
                       !.msg = "key removed",
                       !.data = Aliased(r.data, parent, d.val)]

\* lines 176-214: split the key, compare, mutate the document in memory
Decide(p) ==
    /\ run[p].pc = "loaded"
    /\ LET keys == split(run[p].params.key)
       IN  run' = [run EXCEPT ![p] =
                     IF run[p].params.state = "present"
                     THEN present(run[p], keys)
                     ELSE absent(run[p], keys)]
    /\ UNCHANGED <<dest, destdir, tmpfiles, backups, observed>>
    /\ UNCHANGED plugin

\* lines 216-221: `with StringIO as buff` enters the class, not an instance,
\* which raises before anything is dumped
DumpAfter(r) == Uncaught(r, "AttributeError: __enter__")

DiffAfter(p) ==
    /\ run[p].pc = "decided"
    /\ run[p].params.diffmode
    /\ run' = [run EXCEPT ![p] = DumpAfter(run[p])]
    /\ UNCHANGED <<dest, destdir, tmpfiles, backups, observed>>
    /\ UNCHANGED plugin

\* the decide step is over and the diff, if asked for, was captured
PastDiff(r) ==
    \/ r.pc = "decided" /\ ~r.params.diffmode
    \/ r.pc = "diffed"

\* lines 223-224, 244: nothing changed, so nothing is persisted
ReturnUnchanged(p) ==
    /\ PastDiff(run[p])
    /\ ~run[p].changed
    /\ run' = [run EXCEPT ![p] = Return(run[p])]
    /\ UNCHANGED <<dest, destdir, tmpfiles, backups, observed>>
    /\ UNCHANGED plugin

\* lines 225-226: module.backup_local(dest) copies an existing dest aside and
\* returns the copy's path, returns '' when dest does not exist, and fails
\* the module when the copy cannot be made
Backup(p) ==
    /\ PastDiff(run[p])
    /\ run[p].changed
    /\ run[p].params.backup
    /\ \/ /\ dest.exists
          /\ backups' = backups \cup {dest.text}
          /\ run' = [run EXCEPT ![p].pc = "backed_up", ![p].backup_file = "path"]
       \/ /\ ~dest.exists
          /\ run' = [run EXCEPT ![p].pc = "backed_up", ![p].backup_file = ""]
          /\ UNCHANGED backups
       \/ /\ dest.exists
          /\ run' = [run EXCEPT ![p] = fail_json(run[p], "Could not make backup")]
          /\ UNCHANGED backups
    /\ UNCHANGED <<dest, destdir, tmpfiles, observed>>
    /\ UNCHANGED plugin

\* mutant: the temp-file write does not wait for the backup
PastBackup_NoWait(r) ==
    \/ PastDiff(r) /\ r.changed
    \/ r.pc = "backed_up"

\* the backup, if asked for, is behind us
PastBackup(r) ==
    \/ PastDiff(r) /\ r.changed /\ ~r.params.backup
    \/ r.pc = "backed_up"

\* the part of a text that is on disk when a write is under way
Partial(text) == SubSeq(text, 1, Len(text) \div 2)

\* mutant: the document is dumped straight into the destination
DumpTarget_Dest(p) == "dest"

\* the file that yaml.dump(data, f) of line 232 writes into
DumpTarget(p) == "tmpfile"

\* lines 228-232: NamedTemporaryFile(dir=module.tmpdir, delete=False) is
\* created and yaml.dump starts to write into it
TempWriteBegin(p) ==
    /\ PastBackup(run[p])
    /\ \/ /\ run' = [run EXCEPT ![p].pc = "writing", ![p].wrote = TRUE]
          /\ IF DumpTarget(p) = "tmpfile"
             THEN /\ tmpfiles' = [tmpfiles EXCEPT
                                    ![p] = File(Partial(yaml_dump(run[p].data)))]
                  /\ UNCHANGED dest
             ELSE /\ dest' = File(Partial(yaml_dump(run[p].data)))
                  /\ UNCHANGED tmpfiles
       \/ /\ run' = [run EXCEPT
                       ![p] = fail_json(run[p], "Could not create temporary file")]
          /\ UNCHANGED <<dest, tmpfiles>>
    /\ UNCHANGED <<destdir, backups, observed>>
    /\ UNCHANGED plugin

\* lines 230-235: yaml.dump completes and the file is closed, or IOError
TempWriteEnd(p) ==
    /\ run[p].pc = "writing"
    /\ \/ /\ run' = [run EXCEPT ![p].pc = "written"]
          /\ IF DumpTarget(p) = "tmpfile"
             THEN /\ tmpfiles' = [tmpfiles EXCEPT
                                    ![p] = File(yaml_dump(run[p].data))]
                  /\ UNCHANGED dest
             ELSE /\ dest' = File(yaml_dump(run[p].data))
                  /\ UNCHANGED tmpfiles
       \/ /\ run' = [run EXCEPT
                       ![p] = fail_json(run[p], "Could not create temporary file")]
          /\ UNCHANGED <<dest, tmpfiles>>
    /\ UNCHANGED <<destdir, backups, observed>>
    /\ UNCHANGED plugin

\* mutant: the temp file is copied over dest, and a failing copy leaves dest
\* cut short
AtomicMove_Copy(p) ==
    /\ run[p].pc = "written"
    /\ \/ /\ dest' = tmpfiles[p]
          /\ tmpfiles' = [tmpfiles EXCEPT ![p] = NoFile]
          /\ run' = [run EXCEPT
                       ![p] = Return([run[p] EXCEPT !.moved = MovesSoFar + 1])]
       \/ /\ dest' = File(Partial(tmpfiles[p].text))
          /\ run' = [run EXCEPT
                       ![p] = fail_json(run[p], "Could not move tmp file")]
          /\ UNCHANGED tmpfiles
    /\ UNCHANGED <<destdir, backups, observed>>
    /\ UNCHANGED plugin

\* mutant: the rename leaves alone a destination that was replaced since the
\* invocation loaded it
AtomicMove_FirstWins(p) ==
    /\ run[p].pc = "written"
    /\ \/ /\ dest' = IF dest = run[p].pre THEN tmpfiles[p] ELSE dest
          /\ tmpfiles' = [tmpfiles EXCEPT ![p] = NoFile]
          /\ run' = [run EXCEPT
                       ![p] = Return([run[p] EXCEPT !.moved = MovesSoFar + 1])]
       \/ /\ run' = [run EXCEPT
                       ![p] = fail_json(run[p], "Could not move tmp file")]
          /\ UNCHANGED <<dest, tmpfiles>>
    /\ UNCHANGED <<destdir, backups, observed>>
    /\ UNCHANGED plugin

\* lines 237-244: module.atomic_move(tmpfile, dest) renames the temp file
\* over dest in one step, or raises IOError and leaves both files as they
\* were; after it run_module returns
AtomicMove(p) ==
    /\ run[p].pc = "written"
    /\ \/ /\ dest' = IF DumpTarget(p) = "tmpfile" THEN tmpfiles[p] ELSE dest
          /\ tmpfiles' = [tmpfiles EXCEPT ![p] = NoFile]
          /\ run' = [run EXCEPT
                       ![p] = Return([run[p] EXCEPT !.moved = MovesSoFar + 1])]
       \/ /\ run' = [run EXCEPT
                       ![p] = fail_json(run[p], "Could not move tmp file")]
          /\ UNCHANGED <<dest, tmpfiles>>
    /\ UNCHANGED <<destdir, backups, observed>>
    /\ UNCHANGED plugin

\* the process is killed (a crash or an interruption) in mid-run
Crash(p) ==
    /\ run[p].pc \in Running
    /\ run' = [run EXCEPT ![p].pc = "crashed", ![p].data = Null]
    /\ UNCHANGED <<dest, destdir, tmpfiles, backups, observed>>
    /\ UNCHANGED plugin

\* another process opens dest and reads it, during an invocation or after it
ReaderRead ==
    /\ \E p \in Procs : run[p].pc # "idle"
    /\ observed # dest
    /\ observed' = dest
    /\ UNCHANGED <<dest, destdir, tmpfiles, backups, run>>
    /\ UNCHANGED plugin

Next ==
    \/ \E p \in Procs :
        \/ Load(p)
        \/ Rerun(p)
        \/ Decide(p)
        \/ DiffAfter(p)
        \/ ReturnUnchanged(p)
        \/ Backup(p)
        \/ TempWriteBegin(p)
        \/ TempWriteEnd(p)
        \/ AtomicMove(p)
        \/ Crash(p)
    \/ ReaderRead

Spec == Init /\ [][Next]_vars

----------------------------------------------------------------------------
(* Vocabulary of the properties *)

\* the invocation ended by itself: it returned or an exception left it
\* (no injected I/O failure, no crash)
EndedByItself(r) == r.pc \in {"returned", "raised"}

\* the destination existed at the start and decoded to a mapping
HadMappingRoot(r) ==
    /\ r.pre.exists
    /\ yaml_load(r.pre.text).ok
    /\ IsMapping(yaml_load(r.pre.text).doc)

\* the document that is in the destination file now
Persisted == yaml_load(dest.text).doc

\* the invocation returned, n-th of its process, with this outcome
ReturnedWith(r, changed, msg) ==
    r.pc = "returned" /\ r.changed = changed /\ r.msg = msg

\* the keys of all mappings on the way to the parent of path, and the
\* siblings of its last key, are in `after` what they were in `before`
RECURSIVE OnlyRemoved(_, _, _)
OnlyRemoved(before, after, path) ==
    /\ IsMapping(before) /\ IsMapping(after)
    /\ IF Len(path) = 1
       THEN /\ DOMAIN after.m = DOMAIN before.m \ {path[1]}
            /\ \A k \in DOMAIN after.m : after.m[k] = before.m[k]
       ELSE /\ DOMAIN after.m = DOMAIN before.m
            /\ \A k \in DOMAIN after.m \ {path[1]} : after.m[k] = before.m[k]
            /\ path[1] \in DOMAIN before.m
            /\ OnlyRemoved(before.m[path[1]], after.m[path[1]], Tail(path))

----------------------------------------------------------------------------
(* C1 *)

\* C1: a first state=present run on a document with a mapping root and a key
\* path that is not present in it returns changed=true with 'key added' and
\* the persisted document resolves to the value at the path; the identical
\* second run returns changed=false with OK.
C1_Claim ==
    \A p \in Procs :
        LET r == run[p]
            keys == split(r.params.key)
        IN  /\ ( /\ r.n = 1
                 /\ EndedByItself(r)
                 /\ r.params.state = "present"
                 /\ HadMappingRoot(r)
                 /\ dig(yaml_load(r.pre.text).doc, keys).exc # "none" )
                => /\ ReturnedWith(r, TRUE, "key added")
                   /\ dest.exists
                   /\ dig(Persisted, keys) = Ok(r.params.value)
            /\ ( /\ r.n = 2
                 /\ EndedByItself(r)
                 /\ r.params.state = "present"
                 /\ r.hist[1] = [changed |-> TRUE, msg |-> "key added"] )
                => ReturnedWith(r, FALSE, "OK")

\* C1 where it holds: the path ends at a key that a mapping lacks (KeyError)
\* and no diff is asked for.
C1_MissingKeyNoDiff ==
    \A p \in Procs :
        LET r == run[p]
            keys == split(r.params.key)
        IN  /\ ( /\ r.n = 1
                 /\ EndedByItself(r)
                 /\ r.params.state = "present"
                 /\ ~r.params.diffmode
                 /\ HadMappingRoot(r)
                 /\ dig(yaml_load(r.pre.text).doc, keys).exc = "KeyError" )
                => /\ ReturnedWith(r, TRUE, "key added")
                   /\ dest.exists
                   /\ dig(Persisted, keys) = Ok(r.params.value)
            /\ ( /\ r.n = 2
                 /\ EndedByItself(r)
                 /\ r.params.state = "present"
                 /\ ~r.params.diffmode
                 /\ r.hist[1] = [changed |-> TRUE, msg |-> "key added"] )
                => ReturnedWith(r, FALSE, "OK")

----------------------------------------------------------------------------
(* C2 *)

\* C2: a state=present run on a document in which the path resolves to a
\* value other than the desired one returns changed=true with 'value
\* changed', and the path resolves to exactly the desired value in the
\* resulting document, in memory and in the file.
C2_Claim ==
    \A p \in Procs :
        LET r == run[p]
            keys == split(r.params.key)
            current == dig(r.loaded, keys)
        IN  ( /\ r.n = 1
              /\ EndedByItself(r)
              /\ r.params.state = "present"
              /\ r.pre.exists
              /\ current.exc = "none"
              /\ current.val # r.params.value )
            => /\ ReturnedWith(r, TRUE, "value changed")
               /\ dig(r.data, keys) = Ok(r.params.value)
               /\ dig(Persisted, keys) = Ok(r.params.value)

\* C2 where it holds: the desired value is not a mapping and no diff is
\* asked for.
C2_NotMappingNoDiff ==
    \A p \in Procs :
        LET r == run[p]
            keys == split(r.params.key)
            current == dig(r.loaded, keys)
        IN  ( /\ r.n = 1
              /\ EndedByItself(r)
              /\ r.params.state = "present"
              /\ ~r.params.diffmode
              /\ ~IsMapping(r.params.value)
              /\ r.pre.exists
              /\ current.exc = "none"
              /\ current.val # r.params.value )
            => /\ ReturnedWith(r, TRUE, "value changed")
               /\ dig(r.data, keys) = Ok(r.params.value)
               /\ dig(Persisted, keys) = Ok(r.params.value)

\* C2, the case of a desired mapping that omits keys of the existing one:
\* the run returns 'value changed' and the path then resolves to the desired
\* mapping.
C2_MappingOverMapping ==
    \A p \in Procs :
        LET r == run[p]
            keys == split(r.params.key)
            current == dig(r.loaded, keys)
        IN  ( /\ r.n = 1
              /\ r.pc = "returned"
              /\ r.params.state = "present"
              /\ current.exc = "none"
              /\ IsMapping(current.val)
              /\ IsMapping(r.params.value)
              /\ current.val # r.params.value )
            => dig(Persisted, keys) = Ok(r.params.value)

----------------------------------------------------------------------------
(* C3 *)

\* C3: a state=absent run on a document in which the path is present removes
\* the last key of the path from its parent mapping and nothing else, and
\* returns changed=true with 'key removed'; the identical second run returns
\* changed=false with OK.
C3_Claim ==
    \A p \in Procs :
        LET r == run[p]
            keys == split(r.params.key)
        IN  /\ ( /\ r.n = 1
                 /\ EndedByItself(r)
                 /\ r.params.state = "absent"
                 /\ r.pre.exists
                 /\ dig(r.loaded, keys).exc = "none" )
                => /\ ReturnedWith(r, TRUE, "key removed")
                   /\ dest.exists
                   /\ OnlyRemoved(r.loaded, Persisted, keys)
            /\ ( /\ r.n = 2
                 /\ EndedByItself(r)
                 /\ r.params.state = "absent"
                 /\ r.hist[1] = [changed |-> TRUE, msg |-> "key removed"] )
                => ReturnedWith(r, FALSE, "OK")

\* C3 where it holds: no diff is asked for.
C3_NoDiff ==
    \A p \in Procs :
        LET r == run[p]
            keys == split(r.params.key)
        IN  /\ ( /\ r.n = 1
                 /\ EndedByItself(r)
                 /\ r.params.state = "absent"
                 /\ ~r.params.diffmode
                 /\ r.pre.exists
                 /\ dig(r.loaded, keys).exc = "none" )
                => /\ ReturnedWith(r, TRUE, "key removed")
                   /\ dest.exists
                   /\ OnlyRemoved(r.loaded, Persisted, keys)
            /\ ( /\ r.n = 2
                 /\ EndedByItself(r)
                 /\ r.params.state = "absent"
                 /\ ~r.params.diffmode
                 /\ r.hist[1] = [changed |-> TRUE, msg |-> "key removed"] )
                => ReturnedWith(r, FALSE, "OK")

----------------------------------------------------------------------------
(* C4 *)

\* C4: when the walk along the path meets an absent segment or a container
\* that is not a mapping, the run does not fail: state=present ends with
\* changed=true and 'key added', state=absent with changed=false and OK.
C4_Claim ==
    \A p \in Procs :
        LET r == run[p]
            keys == split(r.params.key)
        IN  ( /\ r.n = 1
              /\ EndedByItself(r)
              /\ IsMapping(r.loaded)
              /\ dig(r.loaded, keys).exc # "none" )
            => IF r.params.state = "present"
               THEN ReturnedWith(r, TRUE, "key added")
               ELSE ReturnedWith(r, FALSE, "OK")

\* C4 where it holds: every segment on the way is a mapping, one of them
\* lacks its key (KeyError), and no diff is asked for.
C4_MissingKeyNoDiff ==
    \A p \in Procs :
        LET r == run[p]
            keys == split(r.params.key)
        IN  ( /\ r.n = 1
              /\ EndedByItself(r)
              /\ ~r.params.diffmode
              /\ IsMapping(r.loaded)
              /\ dig(r.loaded, keys).exc = "KeyError" )
            => IF r.params.state = "present"
               THEN ReturnedWith(r, TRUE, "key added")
               ELSE ReturnedWith(r, FALSE, "OK")

----------------------------------------------------------------------------
(* C5 *)

\* the I/O failures of the persist stage
IOFailures ==
    {"Could not make backup", "Could not create temporary file",
     "Could not move tmp file"}

\* C5: after a crash or an I/O failure that ends a run before its atomic
\* replace completed, the destination file is what it was when the run
\* started.
C5_DestUntouched ==
    \A p \in Procs :
        LET r == run[p]
        IN  (r.pc = "crashed" \/ (r.pc = "failed" /\ r.err \in IOFailures))
            => dest = r.pre

\* a run crashed between its temp-file write and its atomic replace: the
\* temp file holds the complete new text and the destination another one
C5_Witness ==
    \E p \in Procs :
        /\ run[p].pc = "crashed"
        /\ run[p].pre.exists
        /\ tmpfiles[p].exists
        /\ yaml_load(tmpfiles[p].text).ok
        /\ tmpfiles[p].text # dest.text

----------------------------------------------------------------------------
(* C6 *)

\* C6: in a run with backup=true on a destination that existed, a temp file
\* or a replaced destination exists only after backup_local copied the old
\* text aside; when the backup failed there is no temp file and the
\* destination is what it was.
C6_BackupFirst ==
    \A p \in Procs :
        LET r == run[p]
        IN  (r.params.backup /\ r.pre.exists /\ r.n >= 1)
            => /\ (tmpfiles[p].exists \/ dest # r.pre)
                    => (r.backup_file = "path" /\ r.pre.text \in backups)
               /\ (r.pc = "failed" /\ r.err = "Could not make backup")
                    => (~tmpfiles[p].exists /\ dest = r.pre)

\* a run with backup=true replaced an existing destination by another text
C6_Witness ==
    \E p \in Procs :
        /\ run[p].params.backup
        /\ run[p].pre.exists
        /\ run[p].pc = "returned"
        /\ run[p].changed
        /\ dest # run[p].pre
        /\ run[p].pre.text \in backups

----------------------------------------------------------------------------
(* C7 *)

\* C7: a run that finds no destination and has create=false fails with the
\* destination-missing error, whatever the state, and leaves no file, no
\* directory, no backup and no temp file behind.
C7_MissingNoCreate ==
    \A p \in Procs :
        LET r == run[p]
        IN  (r.n >= 1 /\ ~r.pre.exists /\ ~r.params.create)
            => /\ r.pc = "failed"
               /\ r.err = "Path does not exist!"
               /\ dest = NoFile
               /\ destdir = r.predir
               /\ backups = {}
               /\ ~tmpfiles[p].exists

\* a state=absent run failed so, the parent directory missing as well
C7_Witness ==
    \E p \in Procs :
        /\ run[p].n = 1
        /\ ~run[p].pre.exists
        /\ ~run[p].predir
        /\ ~run[p].params.create
        /\ run[p].params.state = "absent"
        /\ run[p].pc = "failed"

----------------------------------------------------------------------------
(* C8 *)

\* C8: a run that finds no destination and has create=true starts from the
\* empty mapping and has the parent directory created; with state=present it
\* returns changed=true with 'key added' and the destination file then holds
\* exactly the one-branch tree that binds the path to the value.
C8_Claim ==
    \A p \in Procs :
        LET r == run[p]
            keys == split(r.params.key)
        IN  ( /\ r.n = 1
              /\ ~r.pre.exists
              /\ r.params.create
              /\ r.pc \in Running \cup {"returned", "raised"} )
            => /\ r.loaded = EmptyMap
               /\ destdir
               /\ (r.params.state = "present" /\ EndedByItself(r))
                    => /\ ReturnedWith(r, TRUE, "key added")
                       /\ dest.exists
                       /\ Persisted = tmpdict(keys, r.params.value)

\* C8 where it holds: no diff is asked for.
C8_NoDiff ==
    \A p \in Procs :
        LET r == run[p]
            keys == split(r.params.key)
        IN  ( /\ r.n = 1
              /\ ~r.pre.exists
              /\ r.params.create
              /\ r.pc \in Running \cup {"returned", "raised"} )
            => /\ r.loaded = EmptyMap
               /\ destdir
               /\ ( /\ r.params.state = "present"
                    /\ ~r.params.diffmode
                    /\ EndedByItself(r) )
                    => /\ ReturnedWith(r, TRUE, "key added")
                       /\ dest.exists
                       /\ Persisted = tmpdict(keys, r.params.value)

----------------------------------------------------------------------------
(* C9 *)

\* the file that the run of r leaves when its atomic replace succeeds
PostFile(r) == File(yaml_dump(r.data))

\* C9: whatever a reader of the destination saw during a run or after it is
\* the whole file as it was before the run or the whole file that the run
\* persists.
C9_ReaderSeesWhole ==
    \A p \in Procs :
        LET r == run[p]
        IN  \/ observed = NotRead
            \/ observed = r.pre
            \/ r.pc = "returned" /\ r.changed /\ observed = PostFile(r)

\* a reader read the old file while the temp file was half written
C9_Witness ==
    \E p \in Procs :
        /\ run[p].pc = "writing"
        /\ run[p].pre.exists
        /\ observed = run[p].pre
        /\ tmpfiles[p].exists
        /\ ~yaml_load(tmpfiles[p].text).ok

----------------------------------------------------------------------------
(* C10 *)

\* an exception left the decide step (dig, merge or del raised)
DecideRaised(r) == r.pc = "raised" /\ r.err \in {"TypeError", "AttributeError"}

\* C10: a run with diff reporting that got past loading and through the
\* decide step returns, and its
\* diff record holds the raw text read at load (a newline if that was empty
\* or there was no file) and the serialisation of the document after the
\* mutation (a newline if that is empty).
C10_Claim ==
    \A p \in Procs :
        LET r == run[p]
            raw == IF r.pre.exists THEN r.pre.text ELSE <<>>
            after == yaml_dump(r.data)
        IN  ( /\ r.params.diffmode
              /\ IsMapping(r.loaded)
              /\ EndedByItself(r)
              /\ ~DecideRaised(r) )
            => /\ r.pc = "returned"
               /\ r.diff.before = (IF raw # <<>> THEN raw ELSE NL)
               /\ r.diff.after = (IF after # <<>> THEN after ELSE NL)

\* what does hold of the diff record: from loading on, the before-snapshot
\* of a run with diff reporting is the raw text read, or a newline
C10_BeforeSnapshot ==
    \A p \in Procs :
        LET r == run[p]
            raw == IF r.pre.exists THEN r.pre.text ELSE <<>>
        IN  (r.params.diffmode /\ r.pc \in Running \cup {"raised"})
            => r.diff.before = (IF raw # <<>> THEN raw ELSE NL)

----------------------------------------------------------------------------
(* The filter plugin, plugins/filter/core.py *)

\* core.py line 9-11: filter(func) stores func under func.__name__; a
\* function is written as its name
filter(table, func) ==
    [n \in DOMAIN table \cup {func} |-> IF n = func THEN func ELSE table[n]]

\* the functions of core.py that carry the @filter decorator, in order
Decorated == <<"dig">>

RECURSIVE Register(_, _)
Register(table, funcs) ==
    IF funcs = <<>> THEN table
    ELSE Register(filter(table, Head(funcs)), Tail(funcs))

\* FilterModule.filters()
filters == FILTERS

\* core.py lines 15-19: dig(d, keys, default)
RECURSIVE filter_dig(_, _, _)
filter_dig(d, keys, default) ==
    IF keys = <<>> THEN Ok(d)
    ELSE LET r == get(d, Head(keys), default)
         IN  IF r.exc # "none" THEN r ELSE filter_dig(r.val, Tail(keys), default)

\* the names a template asks the table for
HelperNames == {"dig", "map_format"}

\* the containers, key lists and defaults a template passes to dig
DigContainers == MapDocs
DigKeys ==
    {<<>>} \cup {<<k>> : k \in Keys} \cup {<<k, l>> : k, l \in Keys}
        \cup {<<k, l, m>> : k, l, m \in Keys}
DigDefaults == {Null, Scalar("0"), EmptyMap}

\* the state in which the plugin has not been imported and nothing runs
Quiet ==
    /\ dest = NoFile
    /\ destdir = FALSE
    /\ tmpfiles = [p \in AllProcs |-> NoFile]
    /\ backups = {}
    /\ run = [p \in AllProcs |-> Idle]
    /\ observed = NotRead

InitFilter ==
    /\ Quiet
    /\ FILTERS = <<>>
    /\ call = [pc |-> "import"]

\* core.py is imported: FILTERS = {} and the decorators run
ImportCore ==
    /\ call.pc = "import"
    /\ FILTERS' = Register(<<>>, Decorated)
    /\ call' = [pc |-> "imported"]
    /\ UNCHANGED <<dest, destdir, tmpfiles, backups, run, observed>>

\* a template looks a helper up by name in filters() and, for dig, calls it
CallFilter ==
    /\ call.pc = "imported"
    /\ \E name \in HelperNames :
        IF name \notin DOMAIN filters
        THEN call' = [pc |-> "unknown", name |-> name]
        ELSE \E d \in DigContainers, keys \in DigKeys, default \in DigDefaults :
                call' = [pc |-> "called", name |-> filters[name], d |-> d,
                         keys |-> keys, default |-> default]
    /\ UNCHANGED <<dest, destdir, tmpfiles, backups, run, observed, FILTERS>>

\* the function found under the name runs to its end
ApplyDig ==
    /\ call.pc = "called"
    /\ call.name = "dig"
    /\ LET r == filter_dig(call.d, call.keys, call.default)
       IN  call' = [call EXCEPT !.pc = IF r.exc = "none" THEN "returned"
                                       ELSE "raised"] @@
                   [result |-> r.val, err |-> r.exc]
    /\ UNCHANGED <<dest, destdir, tmpfiles, backups, run, observed, FILTERS>>

NextFilter ==
    \/ ImportCore
    \/ CallFilter
    \/ ApplyDig

SpecFilter == InitFilter /\ [][NextFilter]_vars

----------------------------------------------------------------------------
(* C11 *)

\* the value at the end of keys, or else the default
FoundOrDefault(d, keys, default) ==
    IF dig(d, keys).exc = "none" THEN dig(d, keys).val ELSE default

\* C11: every call of the filter dig ends without an error and returns the
\* value found at the end of the keys, or else the default, also when keys
\* remain after a missing one.
C11_Claim ==
    (call.pc \in {"returned", "raised"} /\ call.name = "dig")
        => /\ call.pc = "returned"
           /\ call.result = FoundOrDefault(call.d, call.keys, call.default)

\* C11 where it holds: every key but the last is found in a mapping and
\* holds a mapping.
C11_OnlyLastKeyMissing ==
    ( /\ call.pc \in {"returned", "raised"}
      /\ call.name = "dig"
      /\ IsMapping(call.d)
      /\ call.keys # <<>>
      /\ LET parent == dig(call.d, SubSeq(call.keys, 1, Len(call.keys) - 1))
         IN  parent.exc = "none" /\ IsMapping(parent.val) )
        => /\ call.pc = "returned"
           /\ call.result = FoundOrDefault(call.d, call.keys, call.default)

----------------------------------------------------------------------------
(* C12 *)

\* C12: once core.py is imported, the table that filters() returns holds dig
\* and map_format, each under its own name.
C12_Claim ==
    call.pc # "import"
        => /\ DOMAIN filters = {"dig", "map_format"}
           /\ \A n \in DOMAIN filters : filters[n] = n

\* C12 where it holds: the table holds dig under its own name.
C12_DigRegistered ==
    call.pc # "import"
        => /\ "dig" \in DOMAIN filters
           /\ \A n \in DOMAIN filters : filters[n] = n

----------------------------------------------------------------------------
(* merge, called on its own *)

InitMerge ==
    /\ Quiet
    /\ FILTERS = <<>>
    /\ call \in [pc : {"called"}, name : {"merge"}, dct : MapDocs,
                 other : MapDocs]

\* merge(dct, other) runs to its end
ApplyMerge ==
    /\ call.pc = "called"
    /\ call.name = "merge"
    /\ LET r == merge(call.dct, call.other)
       IN  call' = [call EXCEPT !.pc = IF r.exc = "none" THEN "returned"
                                       ELSE "raised"] @@
                   [result |-> r.val, err |-> r.exc]
    /\ UNCHANGED <<dest, destdir, tmpfiles, backups, run, observed, FILTERS>>

NextMerge == ApplyMerge

SpecMerge == InitMerge /\ [][NextMerge]_vars

----------------------------------------------------------------------------
(* C13 *)

\* every key of base that patch does not name is in result with its value,
\* and so on in the nested mappings of base that patch descends into
RECURSIVE Preserved(_, _, _)
Preserved(base, patch, result) ==
    /\ IsMapping(result)
    /\ \A k \in DOMAIN base.m :
        IF k \notin DOMAIN patch.m
        THEN k \in DOMAIN result.m /\ result.m[k] = base.m[k]
        ELSE (IsMapping(base.m[k]) /\ IsMapping(patch.m[k]))
                => /\ k \in DOMAIN result.m
                   /\ Preserved(base.m[k], patch.m[k], result.m[k])

\* C13: what merge returns holds every key of base that patch does not name,
\* with its value, at every level that patch descends into.
C13_SiblingsKept ==
    (call.pc = "returned" /\ call.name = "merge")
        => Preserved(call.dct, call.other, call.result)

\* merge returned after descending into a nested mapping of base that has a
\* key the patch lacks, the patch bringing a key of its own
C13_Witness ==
    /\ call.pc = "returned"
    /\ call.name = "merge"
    /\ \E k \in DOMAIN call.dct.m \cap DOMAIN call.other.m :
        /\ IsMapping(call.dct.m[k])
        /\ IsMapping(call.other.m[k])
        /\ DOMAIN call.dct.m[k].m \ DOMAIN call.other.m[k].m # {}
        /\ DOMAIN call.other.m[k].m \ DOMAIN call.dct.m[k].m # {}
    /\ DOMAIN call.dct.m \ DOMAIN call.other.m # {}

----------------------------------------------------------------------------
(* C14 *)

\* merge is to recurse at key k: the patch value is a mapping and the base
\* value is a mapping or missing
Recurses(base, patch, k) ==
    /\ IsMapping(patch.m[k])
    /\ k \in DOMAIN base.m => IsMapping(base.m[k])

\* C14: merge raises no error, and at every key of the patch where it is not
\* to recurse the result holds exactly the patch value.
C14_Claim ==
    (call.pc \in {"returned", "raised"} /\ call.name = "merge")
        => /\ call.pc = "returned"
           /\ \A k \in DOMAIN call.other.m :
                ~Recurses(call.dct, call.other, k)
                    => /\ k \in DOMAIN call.result.m
                       /\ call.result.m[k] = call.other.m[k]

\* C14 where it holds: no patch value is a mapping over a base value that is
\* not one.
C14_NoMappingOverOther ==
    ( /\ call.pc \in {"returned", "raised"}
      /\ call.name = "merge"
      /\ \A k \in DOMAIN call.other.m :
            IsMapping(call.other.m[k]) => Recurses(call.dct, call.other, k) )
        => /\ call.pc = "returned"
           /\ \A k \in DOMAIN call.other.m :
                IF Recurses(call.dct, call.other, k)
                THEN call.result.m[k] =
                        merge(get(call.dct, k, EmptyMap).val, call.other.m[k]).val
                ELSE call.result.m[k] = call.other.m[k]

----------------------------------------------------------------------------
(* C15 *)

\* the decide step of the run completed (crashed runs apart, whose stage is
\* not recorded)
PastDecide(r) ==
    \/ r.pc \in {"decided", "diffed", "backed_up", "writing", "written",
                 "returned"}
    \/ r.pc = "raised" /\ r.err = "AttributeError: __enter__"
    \/ r.pc = "failed" /\ r.err \in IOFailures

\* C15: a temp file is written and the destination replaced only in a run
\* whose decide step set changed, and a run that decided changed and ended
\* by itself did both; a run that decided unchanged left the destination as
\* it was, wrote no temp file and took no backup.
C15_Claim ==
    \A p \in Procs :
        LET r == run[p]
        IN  /\ (r.wrote \/ r.moved > 0) => r.changed
            /\ (PastDecide(r) /\ EndedByItself(r) /\ r.changed)
                    => (r.wrote /\ r.moved > 0)
            /\ (PastDecide(r) /\ ~r.changed)
                    => /\ dest = r.pre
                       /\ ~r.wrote
                       /\ r.moved = 0
                       /\ ~tmpfiles[p].exists
                       /\ r.backup_file = "None"

\* C15 where it holds: no diff is asked for.
C15_NoDiff ==
    \A p \in Procs :
        LET r == run[p]
        IN  /\ (r.wrote \/ r.moved > 0) => r.changed
            /\ ( /\ PastDecide(r)
                 /\ EndedByItself(r)
                 /\ r.changed
                 /\ ~r.params.diffmode )
                    => (r.wrote /\ r.moved > 0)
            /\ (PastDecide(r) /\ ~r.changed)
                    => /\ dest = r.pre
                       /\ ~r.wrote
                       /\ r.moved = 0
                       /\ ~tmpfiles[p].exists
                       /\ r.backup_file = "None"

----------------------------------------------------------------------------
(* C16 *)

\* the destination existed at the start and decoded to a document that is
\* neither a mapping nor null
HadOtherRoot(r) ==
    /\ r.pre.exists
    /\ r.pre.text # <<>>
    /\ yaml_load(r.pre.text).ok
    /\ ~IsMapping(yaml_load(r.pre.text).doc)
    /\ yaml_load(r.pre.text).doc # Null

\* C16: a run on a destination whose root is a sequence or a scalar does not
\* overwrite the file, and ends in an error.
C16_Claim ==
    \A p \in Procs :
        LET r == run[p]
        IN  (r.n = 1 /\ HadOtherRoot(r))
            => /\ dest = r.pre
               /\ r.pc \in {"returned", "raised", "failed"}
                    => r.pc \in {"raised", "failed"}

\* C16 where it holds: the root is truthy (a non-empty sequence, a scalar
\* other than 0 and false).
C16_TruthyRoot ==
    \A p \in Procs :
        LET r == run[p]
        IN  (r.n = 1 /\ HadOtherRoot(r) /\ Truthy(yaml_load(r.pre.text).doc))
            => /\ dest = r.pre
               /\ r.pc \in {"returned", "raised", "failed"}
                    => r.pc \in {"raised", "failed"}

\* C16, the part on the file alone: it is not overwritten
C16_NotOverwritten ==
    \A p \in Procs :
        (run[p].n = 1 /\ HadOtherRoot(run[p])) => dest = run[p].pre

----------------------------------------------------------------------------
(* C18 *)

\* C18: a run that returns changed=true persisted a document that differs
\* from the one it loaded, and a run that returns changed=false left the
\* document as loaded.
C18_Claim ==
    \A p \in Procs :
        LET r == run[p]
        IN  r.pc = "returned"
            => IF r.changed
               THEN r.data # r.loaded /\ Persisted = r.data
               ELSE r.data = r.loaded

\* C18 where it holds: the value is not a mapping, or the run returns
\* changed=false.
C18_NotMapping ==
    \A p \in Procs :
        LET r == run[p]
        IN  (r.pc = "returned" /\ (~r.changed \/ ~IsMapping(r.params.value)))
            => IF r.changed
               THEN r.data # r.loaded /\ Persisted = r.data
               ELSE r.data = r.loaded

----------------------------------------------------------------------------
(* C19 *)

\* C19: a run that returns changed=false leaves the destination, its parent
\* directory, the temp files and the backups as it found them.
C19_Claim ==
    \A p \in Procs :
        LET r == run[p]
        IN  (r.n = 1 /\ r.pc = "returned" /\ ~r.changed)
            => /\ dest = r.pre
               /\ destdir = r.predir
               /\ ~tmpfiles[p].exists
               /\ backups = {}

\* C19 where it holds: everything but the parent directory.
C19_ButDirectory ==
    \A p \in Procs :
        LET r == run[p]
        IN  (r.n = 1 /\ r.pc = "returned" /\ ~r.changed)
            => /\ dest = r.pre
               /\ ~tmpfiles[p].exists
               /\ backups = {}


----------------------------------------------------------------------------
(* C17: two invocations at once on one destination *)

\* the destinations the two invocations start from
RaceFiles ==
    {NoFile} \cup {File(yaml_dump(d)) : d \in MapsOver({Scalar("1")} \cup InnerMaps)}

\* the parameters of the two invocations
RaceParams ==
    [key : DottedKeys, value : {Scalar("2"), Map([k \in {"a"} |-> Scalar("1")])},
     state : {"present"},
     backup : {FALSE}, create : {TRUE}, diffmode : {FALSE}]
    \cup
    [key : DottedKeys, value : {Null}, state : {"absent"},
     backup : {FALSE}, create : {TRUE}, diffmode : {FALSE}]

InitRace ==
    /\ dest \in RaceFiles
    /\ destdir = TRUE
    /\ tmpfiles = [p \in AllProcs |-> NoFile]
    /\ backups = {}
    /\ run = [p \in AllProcs |-> Idle]
    /\ observed = NotRead
    /\ FILTERS = <<>>
    /\ call = NoCall

\* the steps of the two invocations interleave freely: run_module takes no
\* lock and the steps between its read and its replace are not atomic
NextRace ==
    \E p \in AllProcs :
        \/ LoadFrom(p, RaceParams)
        \/ Decide(p)
        \/ ReturnUnchanged(p)
        \/ TempWriteBegin(p)
        \/ TempWriteEnd(p)
        \/ AtomicMove(p)

SpecRace == InitRace /\ [][NextRace]_vars

\* neither key path leads into the other
RECURSIVE IsPrefix(_, _)
IsPrefix(k1, k2) ==
    \/ k1 = <<>>
    \/ /\ k2 # <<>>
       /\ Head(k1) = Head(k2)
       /\ IsPrefix(Tail(k1), Tail(k2))

DifferentKeys(r1, r2) ==
    LET k1 == split(r1.params.key)
        k2 == split(r2.params.key)
    IN  ~IsPrefix(k1, k2) /\ ~IsPrefix(k2, k1)

\* invocation l made the last replace so far, invocation o an earlier one,
\* and l had loaded the file before o replaced it
ReplacedOver(l, o) ==
    /\ l # o
    /\ run[o].moved > 0
    /\ run[l].moved = MovesSoFar
    /\ run[l].moved > run[o].moved
    /\ run[l].loadedAt < run[o].moved

\* C17: the destination holds the document dumped by the invocation that
\* replaced it last, whatever the file held when that replace was made; when
\* that invocation loaded the file before the other one's replace and the
\* two keys are different, the file holds at the other one's key what the
\* last writer loaded there, and not what the other one wrote there.
C17_LastReplaceWins ==
    \A l \in AllProcs :
        (run[l].moved > 0 /\ run[l].moved = MovesSoFar)
            => /\ dest = PostFile(run[l])
               /\ \A o \in AllProcs :
                    (ReplacedOver(l, o) /\ DifferentKeys(run[l], run[o]))
                        => LET ko == split(run[o].params.key)
                           IN  /\ dig(Persisted, ko) = dig(run[l].loaded, ko)
                               /\ run[o].data # run[o].loaded
                                    => dig(Persisted, ko) # dig(run[o].data, ko)

\* C17 happens: the second replace was made over a file that no longer held
\* what its invocation had loaded, and the first one's edit of another key
\* is lost
C17_Witness ==
    \E l, o \in AllProcs :
        /\ ReplacedOver(l, o)
        /\ DifferentKeys(run[l], run[o])
        /\ PostFile(run[o]) # run[l].pre
        /\ run[o].data # run[o].loaded
        /\ run[l].data # run[l].loaded
        /\ dig(Persisted, split(run[o].params.key))
                # dig(run[o].data, split(run[o].params.key))

=============================================================================
